---- MODULE Spec2Model ----
(***************************************************************************)
(* Model of m2gl.js, the Mantis -> GitLab issue importer.                  *)
(*                                                                         *)
(* The program is one promise pipeline (m2gl.js:48-64).  A pipeline stage  *)
(* that sends one GET and handles its answer is one action (request,       *)
(* answer and the synchronous continuation).  During the import the        *)
(* requests that the driver awaits, and the comment deletions that it does *)
(* not await, are messages in the set inflight; every answer is an action. *)
(* Promise continuations that need no network answer (the dry-run          *)
(* acknowledgments, getIssue) run as microtasks before any network         *)
(* callback, so they are part of the action that schedules them.           *)
(***************************************************************************)
EXTENDS Integers, Sequences, FiniteSets, TLC

\* ------------------------------------------------------------------ bounds
MaxId == 2          \* source and remote issue numbers are 1..MaxId
MaxNotes == 2       \* chunks in one record's Notes field
MaxInventory == 237 \* issues of the remote project in the paginated fetch
MaxThread == 3      \* comments of the remote issue before a thread refresh

\* ------------------------------------------------------------- input data
Ids == 1..MaxId

\* JavaScript's undefined where the code uses it as an issue number or as a
\* key of the issue index (issue numbers themselves are positive).
undefined == 0

\* The operator's account (argv.sudo).
gitlabSudo == "operator"

\* argv.rms is no declared option of the command line; it stays unset.
removeSkipped == FALSE

\* Status codes of the export; only "resolved" is in config.closed_statuses.
Statuses == {"new", "resolved"}

\* A text is the sequence of its tokens, a token a maximal run of characters
\* of one kind: a run of [\dTZ:-] (a timestamp), a run of [a-z] (a username),
\* the separator '][', the delimiter '$$$$', or other text.
TimeTokens == {"2020-01-01T00:00:00Z", "2020-01-02T00:00:00Z"}
NameTokens == {"bob", "carol"}
Separator == "]["
Delimiter == "$$$$"

\* One note of an issue as the export query selects it.
Chunks == {[created_at |-> "2020-01-01T00:00:00Z", author |-> "bob", body |-> "First note"]}

\* CONCAT(date, '][', username, '][', note) of the export query.
ChunkText(c) == <<c.created_at, Separator, c.author, Separator, c.body>>

\* GROUP_CONCAT(... SEPARATOR '$$$$') of the export query.
RECURSIVE JoinChunks(_)
JoinChunks(texts) ==
    IF texts = <<>> THEN <<>>
    ELSE IF Len(texts) = 1 THEN texts[1]
    ELSE texts[1] \o <<Delimiter>> \o JoinChunks(Tail(texts))

\* The Notes fields made of the given chunk texts, at most MaxNotes per
\* issue; <<>> is the empty field of an issue without notes.
NotesOf(texts) == {JoinChunks(f) : f \in UNION {[1..n -> texts] : n \in 0..MaxNotes}}

NotesFields == NotesOf({ChunkText(c) : c \in Chunks})

\* A chunk without timestamp and author, as a hand-edited export may hold.
MalformedChunk == <<"a note without timestamp and author">>

\* Usernames of the export: "" (empty), a configured one, an unconfigured one.
Usernames == {"", "alice", "zed"}

RowsWith(reporters, assignees, notes) ==
    [Id : Ids, Status : Statuses, Notes : notes,
     Reporter : reporters, AssignedTo : assignees]

RowsOf(reporters, assignees) == RowsWith(reporters, assignees, NotesFields)

DistinctIds(f) == \A a, b \in DOMAIN f : a # b => f[a].Id # f[b].Id

FilesOf(rows, maxRows) ==
    {f \in UNION {[1..n -> rows] : n \in 0..maxRows} : DistinctIds(f)}

\* Export files of the main specification: every row order, status and notes.
Files == FilesOf(RowsOf({"alice"}, {""}), MaxId)

\* Export files of the notes specification: one row, every Notes field of
\* well-formed and malformed chunks.
FilesNotes ==
    {<<row>> : row \in RowsWith({"alice"}, {""},
                               NotesOf({ChunkText(c) : c \in Chunks} \cup {MalformedChunk}))}

\* Export files of the users specification: one row, every reporter and
\* assignee.
FilesUsers == {<<row>> : row \in RowsOf(Usernames, Usernames)}

\* The configuration file after getConfig: the users table always holds the
\* empty-username entry (m2gl.js:79-84).
ConfigUsers ==
    [u \in {"", "alice", "bob"} |->
        IF u = "" THEN [name |-> "Unknown", gl_username |-> gitlabSudo]
        ELSE IF u = "alice" THEN [name |-> "Alice", gl_username |-> "alice_gl"]
        ELSE [name |-> "Bob", gl_username |-> "bob_gl"]]

closed_statuses == [s \in {"resolved"} |-> TRUE]

\* The mapping tables of the configuration file that the import reads
\* (m2gl.js:487-517).
MappingTables == {"category_labels", "priority_labels", "severity_labels",
                  "closed_statuses", "version_milestones"}

\* JSON.parse of a configuration file that holds the given mapping tables,
\* then getConfig's users table (m2gl.js:78-85).  The rows of the export
\* carry no category, priority, severity or version the tables map.
ConfigWith(tables) ==
    [k \in {"users"} \cup tables |->
        IF k = "users" THEN ConfigUsers
        ELSE IF k = "closed_statuses" THEN closed_statuses
        ELSE <<>>]

\* The complete configuration file.
ConfigFiles == {ConfigWith(MappingTables)}

\* Configuration files that lack at most one of the mapping tables.
ConfigFilesLacking ==
    {ConfigWith(MappingTables \ missing) :
        missing \in {{}} \cup {{t} : t \in MappingTables}}

\* The attribution marker getNotes puts before every imported note body.
\* A comment body is the sequence of its parts: it begins with the marker
\* exactly when its first part is the marker.
Marker == "_via Mantis:_"

\* Answers of GET .../notes: the bodies of the listed comments, in order.
MantisNoteBody == <<Marker, " old note">>
PlainNoteBody == <<"a comment written in GitLab">>
RemoteNoteLists == {<<>>, <<PlainNoteBody, MantisNoteBody>>}

VARIABLES
    dryRun,         \* argv.dryrun
    fromIssueId,    \* Number(argv.from || 0)
    sourceIds,      \* ghost: the Ids of the rows of the export file as read
    config,         \* the configuration: users and the mapping tables read
    mantisIssues,   \* gitLab.mantisIssues
    gitlabIssues,   \* keys of gitLab.gitlabIssues (the in-memory issue index)
    remote,         \* the remote project: issue number -> absent/opened/closed
    pc,             \* position of the promise pipeline
    cur,            \* position in mantisIssues of the record being imported
    inflight,       \* requests sent and not yet answered
    log,            \* every call of the remote gateway, in call order
    checked,        \* Ids for which getIssue was called, in call order
    outcome,        \* per record position: how its import ended
    fetched,        \* ghost: issue numbers the inventory fetch returned
    failed,         \* ghost: awaited requests that were answered by a failure
    crashed,        \* the process died of an unhandled rejection
    listedNotes,    \* ghost: the comments the answered listings held
    page,           \* getRemainingGitLabProjectIssues: page of the open request
    bodies,         \* the page bodies the pending continuations hold
    requested,      \* ghost: the page numbers requested, in request order
    allIssues,      \* what getRemainingGitLabProjectIssues(0, 100) resolved to
    fetchPc,        \* position of the paginated fetch
    inventory,      \* number of issues the remote project holds for the fetch
    arg,            \* argument of the function being evaluated
    ret,            \* its return value
    evalPc,         \* "call" before the evaluation, "returned" after it
    notes,          \* thread refresh: the comments the remote issue holds
    notesPage,      \* the number of comments the remote lists per page
    refreshRow,     \* the record whose thread is refreshed
    refreshPc,      \* position of replaceIssueNotes
    noteRequests,   \* its requests sent and not yet answered
    removed         \* ghost: the comments deleted so far

importVars == <<dryRun, fromIssueId, sourceIds, config, mantisIssues,
                gitlabIssues, remote, pc, cur, inflight, log, checked, outcome,
                fetched, failed, crashed, listedNotes>>

fetchVars == <<page, bodies, requested, allIssues, fetchPc, inventory>>

evalVars == <<arg, ret, evalPc>>

threadVars == <<notes, notesPage, refreshRow, refreshPc, noteRequests, removed>>

vars == <<dryRun, fromIssueId, sourceIds, config, mantisIssues, gitlabIssues,
          remote, pc, cur, inflight, log, checked, outcome, fetched, failed,
          crashed, listedNotes, fetchVars, evalVars, threadVars>>


\* ---------------------------------------------------------- pure functions
\* JavaScript's null as the result of a lookup.
null == [isNull |-> TRUE]

\* config.users is a plain object (m2gl.js:78-84): a lookup of a name that is
\* no key of its own finds the member of that name every object inherits.
ObjectPrototype == {"constructor", "toString"}

Inherited(name) == [inherited |-> name]

\* getUserByMantisUsername (m2gl.js:405-407):
\*   (username && config.users[username]) || config.users[""] || null
getUserByMantisUsername(cfg, username) ==
    IF username # "" /\ username \in DOMAIN cfg.users THEN cfg.users[username]
    ELSE IF username \in ObjectPrototype THEN Inherited(username)
    ELSE IF "" \in DOMAIN cfg.users THEN cfg.users[""]
    ELSE null

\* Mutant of isClosed: every status counts as closed.
isClosed_always(row) == TRUE

\* isClosed (m2gl.js:516-518): config.closed_statuses[row.Status], undefined
\* (falsy) for a status without entry.
isClosed(row) ==
    row.Status \in DOMAIN closed_statuses /\ closed_statuses[row.Status]

\* row.Notes.split("$$$$") (m2gl.js:465): the chunks between the delimiters;
\* the empty text has the one chunk "".
RECURSIVE Split(_)
Split(text) ==
    IF \E i \in DOMAIN text : text[i] = Delimiter
    THEN LET i == CHOOSE j \in DOMAIN text :
                     text[j] = Delimiter /\ \A h \in 1..(j - 1) : text[h] # Delimiter
         IN  <<SubSeq(text, 1, i - 1)>> \o Split(SubSeq(text, i + 1, Len(text)))
    ELSE <<text>>

\* Whether /([\dTZ:-]+)(]\[)([a-z]+)(]\[)((.|\n)*)/ matches at token i.
MatchesAt(chunk, i) ==
    /\ i + 3 <= Len(chunk)
    /\ chunk[i] \in TimeTokens
    /\ chunk[i + 1] = Separator
    /\ chunk[i + 2] \in NameTokens
    /\ chunk[i + 3] = Separator

\* row.match(regexp) (m2gl.js:467): the position of the leftmost match, 0
\* for null (no match).
Match(chunk) ==
    IF \E i \in DOMAIN chunk : MatchesAt(chunk, i)
    THEN CHOOSE i \in DOMAIN chunk :
             MatchesAt(chunk, i) /\ \A h \in 1..(i - 1) : ~MatchesAt(chunk, h)
    ELSE 0

\* The guard of getNotes (m2gl.js:458): the field is absent, empty or 'NULL'.
NoNotes(row) ==
    "Notes" \notin DOMAIN row \/ row.Notes = <<>> \/ row.Notes = <<"NULL">>

\* getNotes raises a TypeError at matches[1] (m2gl.js:469) when a chunk does
\* not match.
getNotesThrows(row) ==
    ~NoNotes(row) /\ \E k \in DOMAIN Split(row.Notes) : Match(Split(row.Notes)[k]) = 0

\* getNotes (m2gl.js:456-476) where it does not raise: null (here <<>>) for
\* an absent, empty or 'NULL' field, otherwise one entry per chunk with the
\* groups 1 and 3 of the match and '_via Mantis:_ ' before group 5.
getNotes(row) ==
    IF NoNotes(row) THEN <<>>
    ELSE LET noteRows == Split(row.Notes)
         IN  [k \in DOMAIN noteRows |->
                LET m == Match(noteRows[k])
                IN  [created_at |-> noteRows[k][m],
                     author |-> noteRows[k][m + 2],
                     body |-> <<Marker, " ">>
                                 \o SubSeq(noteRows[k], m + 4, Len(noteRows[k]))]]

\* note.body.indexOf('_via Mantis:_') === 0 (m2gl.js:705)
StartsWithMarker(body) == body # <<>> /\ body[1] = Marker

\* _.sortBy(rows, "Id") (m2gl.js:123): a stable insertion sort.
RECURSIVE InsertById(_, _)
InsertById(row, sorted) ==
    IF sorted = <<>> THEN <<row>>
    ELSE IF row.Id < Head(sorted).Id THEN <<row>> \o sorted
    ELSE <<Head(sorted)>> \o InsertById(row, Tail(sorted))

\* Mutant of SortById: the rows stay in file order.
SortById_fileOrder(rows) == rows

RECURSIVE SortById(_)
SortById(rows) ==
    IF rows = <<>> THEN <<>>
    ELSE InsertById(rows[Len(rows)], SortById(SubSeq(rows, 1, Len(rows) - 1)))

\* The rows kept by the start-id filter (m2gl.js:117-121): all of them when
\* fromIssueId is 0.
FilterFrom(rows, from) ==
    IF from # 0 THEN SelectSeq(rows, LAMBDA row : row.Id >= from) ELSE rows

\* The members answered by GET .../members/all.
GitlabMembers ==
    {[username |-> gitlabSudo, id |-> 1], [username |-> "alice_gl", id |-> 2]}

\* mapGitLabUserIds (m2gl.js:189-196): gl_id of the member whose username is
\* the identity's gl_username, undefined without such a member.
mapGitLabUserIds(cfg, members) ==
    [cfg EXCEPT !.users =
        [u \in DOMAIN cfg.users |->
            [name |-> cfg.users[u].name,
             gl_username |-> cfg.users[u].gl_username,
             gl_id |-> IF \E m \in members : m.username = cfg.users[u].gl_username
                       THEN (CHOOSE m \in members :
                                m.username = cfg.users[u].gl_username).id
                       ELSE undefined]]]

\* importIssue raises a TypeError while it builds the payload (m2gl.js:297-298):
\* getMilestoneId reads config.version_milestones.hasOwnProperty and getLabels
\* config.category_labels.hasOwnProperty.  priority_labels and severity_labels
\* are read only for a code that is a key of category_labels (m2gl.js:491,
\* 495), which no row of the export carries.
PayloadThrows(cfg) ==
    "version_milestones" \notin DOMAIN cfg \/ "category_labels" \notin DOMAIN cfg

\* isClosed raises a TypeError (m2gl.js:517) without config.closed_statuses.
isClosedThrows(cfg) == "closed_statuses" \notin DOMAIN cfg

\* The usernames validateMantisIssues collects (m2gl.js:250-263): those for
\* which getUserByMantisUsername returns a falsy value.
missingUsernames(cfg, issues) ==
    {u \in {issues[k].AssignedTo : k \in DOMAIN issues}
            \cup {issues[k].Reporter : k \in DOMAIN issues} :
        getUserByMantisUsername(cfg, u) = null}

\* One call of the remote gateway.  sent is FALSE for a write that dry-run
\* replaced by an acknowledgment; issue is then the acknowledgment's 'issue'.
Call(op, method, issue, rec, sent, sudo, ev, n) ==
    [op |-> op, method |-> method, issue |-> issue, rec |-> rec, sent |-> sent,
     sudo |-> sudo, state_event |-> ev, n |-> n]

Get(op) == Call(op, "GET", undefined, 0, TRUE, gitlabSudo, "none", 0)

\* Values of --from: none (0), or a start id that keeps the records of the
\* last two issue numbers or of the last one.  A lower start id cuts the
\* same way, on more records.
StartIds == {0, MaxId - 1, MaxId}

\* ------------------------------------------------------------------- Init
FetchIdle ==
    /\ page = 0
    /\ bodies = <<>>
    /\ requested = <<>>
    /\ allIssues = <<>>
    /\ fetchPc = "idle"
    /\ inventory = 0

EvalIdle ==
    /\ arg = <<>>
    /\ ret = <<>>
    /\ evalPc = "idle"

ThreadIdle ==
    /\ notes = <<>>
    /\ notesPage = 0
    /\ refreshRow = <<>>
    /\ refreshPc = "idle"
    /\ noteRequests = {}
    /\ removed = {}

Init ==
    /\ FetchIdle
    /\ EvalIdle
    /\ ThreadIdle
    /\ listedNotes = {}
    /\ dryRun \in BOOLEAN
    /\ fromIssueId \in StartIds
    /\ sourceIds = {}
    /\ config = [users |-> <<>>]
    /\ mantisIssues = <<>>
    /\ gitlabIssues = {}
    /\ remote \in [Ids -> {"absent", "opened"}]
    /\ pc = "getConfig"
    /\ cur = 0
    /\ inflight = {}
    /\ log = <<>>
    /\ checked = <<>>
    /\ outcome = <<>>
    /\ fetched = {}
    /\ failed = {}
    /\ crashed = FALSE

\* ------------------------------------------------------- pipeline, part 1
\* getConfig (m2gl.js:70-91)
getConfig(configs) ==
    /\ pc = "getConfig" /\ ~crashed
    /\ \/ /\ config' \in configs
          /\ pc' = "readMantisIssues"
       \/ /\ pc' = "error"          \* 'Cannot read config file'
          /\ UNCHANGED config
    /\ UNCHANGED <<fetchVars, evalVars, threadVars, listedNotes, dryRun, fromIssueId, sourceIds, mantisIssues, gitlabIssues,
                   remote, cur, inflight, log, checked, outcome, fetched, failed,
                   crashed>>

\* readMantisIssues (m2gl.js:97-128) on an export file drawn from files
readMantisIssues(files) ==
    /\ pc = "readMantisIssues" /\ ~crashed
    /\ \/ \E rows \in files :
            /\ sourceIds' = {rows[k].Id : k \in DOMAIN rows}
            /\ mantisIssues' = SortById(FilterFrom(rows, fromIssueId))
            /\ pc' = "getGitLabProject"
       \/ /\ pc' = "error"          \* the file cannot be read
          /\ UNCHANGED <<sourceIds, mantisIssues>>
    /\ UNCHANGED <<fetchVars, evalVars, threadVars, listedNotes, dryRun, fromIssueId, config, gitlabIssues, remote, cur,
                   inflight, log, checked, outcome, fetched, failed,
                   crashed>>

\* getGitLabProject (m2gl.js:134-156): the request, its answer and the handler
getGitLabProject ==
    /\ pc = "getGitLabProject" /\ ~crashed
    /\ log' = Append(log, Get("getGitLabProject"))
    /\ \/ /\ pc' = "getGitLabProjectMembers"
          /\ UNCHANGED failed
       \/ /\ pc' = "error"          \* request failed or project not found
          /\ failed' = failed \cup {Get("getGitLabProject")}
    /\ UNCHANGED <<fetchVars, evalVars, threadVars, listedNotes, dryRun, fromIssueId, sourceIds, config, mantisIssues,
                   gitlabIssues, remote, cur, inflight, checked, outcome, fetched, crashed>>

\* getGitLabProjectMembers, then mapGitLabUserIds (m2gl.js:162-196)
getGitLabProjectMembers ==
    /\ pc = "getGitLabProjectMembers" /\ ~crashed
    /\ log' = Append(log, Get("getGitLabProjectMembers"))
    /\ \/ /\ config' = mapGitLabUserIds(config, GitlabMembers)
          /\ pc' = "getGitLabProjectMilestones"
          /\ UNCHANGED failed
       \/ /\ pc' = "error"
          /\ failed' = failed \cup {Get("getGitLabProjectMembers")}
          /\ UNCHANGED config
    /\ UNCHANGED <<fetchVars, evalVars, threadVars, listedNotes, dryRun, fromIssueId, sourceIds, mantisIssues, gitlabIssues,
                   remote, cur, inflight, checked, outcome, fetched, crashed>>

\* getGitLabProjectMilestones, then mapGitLabMilestoneIds (m2gl.js:202-236)
getGitLabProjectMilestones ==
    /\ pc = "getGitLabProjectMilestones" /\ ~crashed
    /\ log' = Append(log, Get("getGitLabProjectMilestones"))
    /\ \/ /\ pc' = "validateMantisIssues"
          /\ UNCHANGED failed
       \/ /\ pc' = "error"
          /\ failed' = failed \cup {Get("getGitLabProjectMilestones")}
    /\ UNCHANGED <<fetchVars, evalVars, threadVars, listedNotes, dryRun, fromIssueId, sourceIds, config, mantisIssues,
                   gitlabIssues, remote, cur, inflight, checked, outcome, fetched, crashed>>

\* validateMantisIssues (m2gl.js:242-271)
validateMantisIssues ==
    /\ pc = "validateMantisIssues" /\ ~crashed
    /\ pc' = IF missingUsernames(config, mantisIssues) # {}
             THEN "error"           \* 'User validation failed'
             ELSE "getGitLabProjectIssues"
    /\ UNCHANGED <<fetchVars, evalVars, threadVars, listedNotes, dryRun, fromIssueId, sourceIds, config, mantisIssues,
                   gitlabIssues, remote, cur, inflight, log, checked, outcome,
                   fetched, failed,
                   crashed>>

\* The issues the remote project holds: iid is the project-scoped issue
\* number, id the instance-wide one.
RemoteInventory == {[iid |-> i, id |-> i + MaxId] : i \in {j \in Ids : remote[j] # "absent"}}

\* Mutant of indexBy: the index is keyed by the instance-wide id.
indexBy_id(result) == {issue.id : issue \in result}

\* _.indexBy(result, 'iid') (m2gl.js:359): the keys of the index.
indexBy(result) == {issue.iid : issue \in result}

\* Mutant of IssuesListingRejected: the failure is swallowed and the import
\* starts on an empty index.
IssuesListingRejected_swallowed ==
    /\ pc' = IF mantisIssues = <<>> THEN "done" ELSE "importIssue"
    /\ cur' = 1
    /\ UNCHANGED <<gitlabIssues, fetched>>

\* The catch of getRemainingGitLabProjectIssues (m2gl.js:392-396) rethrows:
\* 'Cannot get list of issues from gitlab'.
IssuesListingRejected ==
    /\ pc' = "error"
    /\ UNCHANGED <<gitlabIssues, fetched, cur>>

\* getGitLabProjectIssues (m2gl.js:355-398): the fetch of the inventory and
\* _.indexBy(result, 'iid'); then importGitLabIssues (m2gl.js:277-289) starts
\* the chain over gitLab.mantisIssues.
getGitLabProjectIssues ==
    /\ pc = "getGitLabProjectIssues" /\ ~crashed
    /\ log' = Append(log, Get("getGitLabProjectIssues"))
    /\ \/ /\ gitlabIssues' = indexBy(RemoteInventory)
          /\ fetched' = {issue.iid : issue \in RemoteInventory}
          /\ pc' = IF removeSkipped \/ mantisIssues = <<>>
                   THEN "done" ELSE "importIssue"
          /\ cur' = 1
          /\ UNCHANGED failed
       \/ /\ failed' = failed \cup {Get("getGitLabProjectIssues")}
          /\ IssuesListingRejected
    /\ UNCHANGED <<fetchVars, evalVars, threadVars, listedNotes, dryRun, fromIssueId, sourceIds, config, mantisIssues,
                   remote, inflight, checked, outcome, crashed>>


\* ------------------------------------------------------------ the driver
\* The record the chain of importGitLabIssues (m2gl.js:283-287) is at.
mantisIssue == mantisIssues[cur]

\* The record is finished: the chain goes on to the next one, or the final
\* promise resolves and ' Done! ' is printed (m2gl.js:60-61).
Finish(state) ==
    /\ outcome' = Append(outcome, state)
    /\ pc' = IF cur < Len(mantisIssues) THEN "importIssue" ELSE "done"
    /\ cur' = cur + 1

\* Whether the record with this Id took the update branch.
Updated(id) == \E k \in DOMAIN log : log[k].op = "updateIssue" /\ log[k].rec = id

\* updateIssue (m2gl.js:578-600), insertIssue (536-567), closeIssue (607-633),
\* deleteAllIssueNotes' listing (690-702), deleteIssueNote (722-747) and
\* addNote (781-813) as calls of the gateway: dry-run replaces every write
\* by an acknowledgment and sends nothing.
updateIssue(issueIid, rec, ev) ==
    Call("updateIssue", "PUT", issueIid, rec, ~dryRun, gitlabSudo, ev, 0)

\* Mutant of insertIssue: the create is always sent as the operator.
insertIssue_operator(data, rec) ==
    Call("insertIssue", "POST", data.iid, rec, ~dryRun, gitlabSudo, "none", 0)

insertIssue(data, rec) ==
    Call("insertIssue", "POST", data.iid, rec, ~dryRun,
         IF "gl_username" \in DOMAIN data.author
         THEN data.author.gl_username ELSE gitlabSudo,
         "none", 0)

closeIssue(issue, rec) ==
    Call("closeIssue", "PUT", issue.iid, rec, ~dryRun, gitlabSudo, "close", 0)

listNotes(issueIid, rec) ==
    Call("listNotes", "GET", issueIid, rec, TRUE, gitlabSudo, "none", 0)

deleteIssueNote(issueIid, noteId, rec) ==
    Call("deleteIssueNote", "DELETE", issueIid, rec, ~dryRun, gitlabSudo,
         "none", noteId)

addNote(issueIid, noteData, rec, k) ==
    Call("addNote", "POST", issueIid, rec, ~dryRun,
         IF "author" \in DOMAIN noteData THEN noteData.author ELSE gitlabSudo,
         "none", k)

\* Mutant of InsertedIssue: the response carries the first issue's number.
InsertedIssue_first(data) == [iid |-> 1]

\* The issue object insertIssue resolves to: the response body of a real
\* create, which has the iid of the request, or the dry-run acknowledgment
\* {dryRun, action, issue}, which has no iid (m2gl.js:541).
InsertedIssue(data) == [iid |-> IF dryRun THEN undefined ELSE data.iid]

\* replaceIssueNotes (m2gl.js:755-757) begins: deleteAllIssueNotes sends the
\* listing request, in dry-run too.  calls are the calls made just before it,
\* pending the requests that stay in flight.
StartReplaceIssueNotes(issueIid, calls, pending) ==
    /\ log' = log \o calls \o <<listNotes(issueIid, mantisIssue.Id)>>
    /\ inflight' = pending \cup {listNotes(issueIid, mantisIssue.Id)}
    /\ pc' = "awaitNotes"
    /\ UNCHANGED <<cur, outcome>>

\* After a create the driver treats as successful (m2gl.js:329-343): register
\* the issue in the index, then close and finish, or refresh the notes.
AfterInsert(issue, calls, pending) ==
    /\ gitlabIssues' = gitlabIssues \cup {issue.iid}
    /\ IF isClosedThrows(config)
       THEN /\ log' = log \o calls   \* TypeError at isClosed (m2gl.js:331)
            /\ inflight' = pending
            /\ pc' = "error"
            /\ UNCHANGED <<cur, outcome>>
       ELSE IF isClosed(mantisIssue)
       THEN /\ log' = log \o calls \o <<closeIssue(issue, mantisIssue.Id)>>
            /\ IF dryRun
               THEN /\ inflight' = pending
                    /\ Finish("InsertedAndClosed")
               ELSE /\ inflight' = pending \cup {closeIssue(issue, mantisIssue.Id)}
                    /\ pc' = "awaitClose"
                    /\ UNCHANGED <<cur, outcome>>
       ELSE StartReplaceIssueNotes(issue.iid, calls, pending)

\* Mutant of getIssue: the entry is never found.
getIssue_absent(issueId) == FALSE

\* getIssue (m2gl.js:526-528): the entry of the index, truthy when present.
getIssue(issueId) == issueId \in gitlabIssues

\* Mutant of Fatal: the failure is dropped and the chain goes on.
Fatal_dropped == Finish("Failed")

\* A rejection nobody handles on the way: the remaining records of the chain
\* are skipped and the error is printed (m2gl.js:283-287, 62-64).
Fatal ==
    /\ pc' = "error"
    /\ UNCHANGED <<cur, outcome>>

\* Mutant of InsertRejected: the create's rejection is passed on.
InsertRejected_passedOn ==
    /\ pc' = "error"
    /\ UNCHANGED <<cur, outcome>>

\* The rejection handler of the create (m2gl.js:344-346) logs and resolves.
InsertRejected == Finish("InsertFailed")

\* Mutant of CloseRejected: the close's rejection is passed on.
CloseRejected_passedOn ==
    /\ pc' = "error"
    /\ UNCHANGED <<cur, outcome>>

\* The rejection handler of the close (m2gl.js:335-337) warns and resolves.
CloseRejected == Finish("CloseFailed")

\* importIssue (m2gl.js:291-349) up to its first request: the payload, the
\* existence check getIssue (526-528) against the index, and the branch.
importIssue ==
    /\ pc = "importIssue" /\ ~crashed
    /\ LET issueId == mantisIssue.Id
           data == [iid |-> issueId,
                    author |-> getUserByMantisUsername(config, mantisIssue.Reporter)]
           ev == IF isClosed(mantisIssue) THEN "close" ELSE "reopen"
       IN  IF PayloadThrows(config)
           THEN /\ Fatal           \* TypeError before getIssue is called
                /\ UNCHANGED <<checked, gitlabIssues, log, inflight>>
           ELSE
           /\ checked' = Append(checked, issueId)
           /\ IF getIssue(issueId)
              THEN /\ UNCHANGED gitlabIssues
                   /\ IF isClosedThrows(config)
                      THEN /\ Fatal    \* TypeError at isClosed (m2gl.js:320)
                           /\ UNCHANGED <<log, inflight>>
                      ELSE IF dryRun
                      THEN StartReplaceIssueNotes(issueId,
                               <<updateIssue(issueId, issueId, ev)>>, inflight)
                      ELSE /\ log' = Append(log, updateIssue(issueId, issueId, ev))
                           /\ inflight' = inflight \cup {updateIssue(issueId, issueId, ev)}
                           /\ pc' = "awaitUpdate"
                           /\ UNCHANGED <<cur, outcome>>
              ELSE IF dryRun
                   THEN AfterInsert(InsertedIssue(data),
                                    <<insertIssue(data, issueId)>>, inflight)
                   ELSE /\ log' = Append(log, insertIssue(data, issueId))
                        /\ inflight' = inflight \cup {insertIssue(data, issueId)}
                        /\ pc' = "awaitInsert"
                        /\ UNCHANGED <<gitlabIssues, cur, outcome>>
    /\ UNCHANGED <<fetchVars, evalVars, threadVars, listedNotes, dryRun, fromIssueId, sourceIds, config, mantisIssues, remote,
                   fetched, failed, crashed>>

\* The answer to the update request (m2gl.js:322-327 and 590-598).
updateAnswer ==
    /\ pc = "awaitUpdate" /\ ~crashed
    /\ \E r \in inflight :
        /\ r.op = "updateIssue"
        /\ \/ /\ remote' = [remote EXCEPT ![r.issue] =
                               IF r.state_event = "close" THEN "closed" ELSE "opened"]
              /\ StartReplaceIssueNotes(r.issue, <<>>, inflight \ {r})
              /\ UNCHANGED failed
           \/ /\ Fatal              \* 'Failed to update issue in GitLab'
              /\ inflight' = inflight \ {r}
              /\ failed' = failed \cup {r}
              /\ UNCHANGED <<remote, log>>
    /\ UNCHANGED <<fetchVars, evalVars, threadVars, listedNotes, dryRun, fromIssueId, sourceIds, config, mantisIssues,
                   gitlabIssues, checked, fetched, crashed>>

\* The answer to the create request (m2gl.js:329-346 and 554-565).
insertAnswer ==
    /\ pc = "awaitInsert" /\ ~crashed
    /\ \E r \in inflight :
        /\ r.op = "insertIssue"
        /\ \/ /\ remote' = [remote EXCEPT ![r.issue] = "opened"]
              /\ AfterInsert(InsertedIssue([iid |-> r.issue]), <<>>, inflight \ {r})
              /\ UNCHANGED failed
           \/ /\ inflight' = inflight \ {r}     \* ': Failed to insert.'
              /\ failed' = failed \cup {r}
              /\ InsertRejected
              /\ UNCHANGED <<remote, gitlabIssues, log>>
    /\ UNCHANGED <<fetchVars, evalVars, threadVars, listedNotes, dryRun, fromIssueId, sourceIds, config, mantisIssues,
                   checked, fetched, crashed>>

\* The answer to the close request after a create (m2gl.js:332-337).
closeAnswer ==
    /\ pc = "awaitClose" /\ ~crashed
    /\ \E r \in inflight :
        /\ r.op = "closeIssue"
        /\ inflight' = inflight \ {r}
        /\ \/ /\ remote' = [remote EXCEPT ![r.issue] = "closed"]
              /\ Finish("InsertedAndClosed")
              /\ UNCHANGED failed
           \/ /\ CloseRejected  \* 'Inserted successfully but failed to close'
              /\ failed' = failed \cup {r}
              /\ UNCHANGED remote
    /\ UNCHANGED <<fetchVars, evalVars, threadVars, listedNotes, dryRun, fromIssueId, sourceIds, config, mantisIssues,
                   gitlabIssues, log, checked, fetched, crashed>>


\* Answers to the listing request: a failure, or (for a real issue number)
\* one of the lists of comments the remote can answer with; an issue this
\* run has just created holds no imported comment yet.
NotesAnswers(lists, issueIid, rec) ==
    {[ok |-> FALSE, body |-> <<>>]}
    \cup (IF issueIid # undefined
          THEN {[ok |-> TRUE, body |-> b] :
                   b \in {l \in lists :
                              Updated(rec) \/ \A k \in DOMAIN l : ~StartsWithMarker(l[k])}}
          ELSE {})

\* Mutant of deleteAllIssueNotes: onlyMantisNotes is false, every listed
\* comment is deleted.
deleteAllIssueNotes_all(issueIid, answer, rec) ==
    [k \in DOMAIN answer.body |-> deleteIssueNote(issueIid, k, rec)]

\* deleteAllIssueNotes' handler (m2gl.js:703-713) with onlyMantisNotes = true:
\* one deleteIssueNote per listed comment that begins with the marker; the
\* promises are dropped.  A failed listing is caught and deletes nothing.
deleteAllIssueNotes(issueIid, answer, rec) ==
    LET listed == [k \in DOMAIN answer.body |-> [id |-> k, body |-> answer.body[k]]]
        mantis == SelectSeq(listed, LAMBDA note : StartsWithMarker(note.body))
    IN  [k \in DOMAIN mantis |-> deleteIssueNote(issueIid, mantis[k].id, rec)]

Range(seq) == {seq[k] : k \in DOMAIN seq}

\* The comments a listing answer holds, with the ids the remote gave them.
ListedNotes(issueIid, answer, rec) ==
    {[rec |-> rec, issue |-> issueIid, id |-> k, body |-> answer.body[k]] :
        k \in DOMAIN answer.body}

\* The answer to the listing request, and the rest of replaceIssueNotes
\* (m2gl.js:757-772): getNotes, then one addNote per parsed note, awaited
\* together.
replaceIssueNotes(lists) ==
    /\ pc = "awaitNotes" /\ ~crashed
    /\ \E r \in inflight :
        /\ r.op = "listNotes" /\ r.rec = mantisIssue.Id
        /\ \E answer \in NotesAnswers(lists, r.issue, r.rec) :
            LET deletions == deleteAllIssueNotes(r.issue, answer, r.rec)
            IN  /\ listedNotes' = listedNotes \cup ListedNotes(r.issue, answer, r.rec)
                /\ IF getNotesThrows(mantisIssue)
                   THEN /\ log' = log \o deletions
                        /\ inflight' = (inflight \ {r})
                              \cup (IF dryRun THEN {} ELSE Range(deletions))
                        /\ Fatal          \* TypeError: matches is null
                   ELSE LET mantisNotes == getNotes(mantisIssue)
                            promises == [k \in DOMAIN mantisNotes |->
                                            addNote(r.issue, mantisNotes[k], r.rec, k)]
                        IN  /\ log' = log \o deletions \o promises
                            /\ inflight' = (inflight \ {r})
                                  \cup (IF dryRun THEN {}
                                        ELSE Range(deletions) \cup Range(promises))
                            /\ IF dryRun \/ mantisNotes = <<>>
                               THEN Finish(IF Updated(r.rec) THEN "Updated" ELSE "Inserted")
                               ELSE /\ pc' = "awaitAddNotes"
                                    /\ UNCHANGED <<cur, outcome>>
    /\ UNCHANGED <<fetchVars, evalVars, threadVars, dryRun, fromIssueId, sourceIds, config, mantisIssues,
                   gitlabIssues, remote, checked, fetched, failed, crashed>>

\* The answer to one comment creation (m2gl.js:766-768 and 800-811):
\* Promise.all resolves with the last success and rejects with the first
\* failure.
addNoteAnswer ==
    /\ pc = "awaitAddNotes" /\ ~crashed
    /\ \E r \in inflight :
        /\ r.op = "addNote" /\ r.rec = mantisIssue.Id
        /\ inflight' = inflight \ {r}
        /\ \/ /\ IF \E q \in inflight \ {r} : q.op = "addNote" /\ q.rec = r.rec
                 THEN UNCHANGED <<pc, cur, outcome>>
                 ELSE Finish(IF Updated(r.rec) THEN "Updated" ELSE "Inserted")
              /\ UNCHANGED failed
           \/ /\ Fatal          \* 'Failed to insert note to issue into GitLab'
              /\ failed' = failed \cup {r}
    /\ UNCHANGED <<fetchVars, evalVars, threadVars, listedNotes, dryRun, fromIssueId, sourceIds, config, mantisIssues,
                   gitlabIssues, remote, log, checked, fetched, crashed>>

\* The answer to a comment creation whose Promise.all has already rejected.
lateAddNoteAnswer ==
    /\ pc = "error" /\ ~crashed
    /\ \E r \in inflight :
        /\ r.op = "addNote"
        /\ inflight' = inflight \ {r}
        /\ \/ UNCHANGED failed
           \/ failed' = failed \cup {r}
    /\ UNCHANGED <<fetchVars, evalVars, threadVars, listedNotes, dryRun, fromIssueId, sourceIds, config, mantisIssues,
                   gitlabIssues, remote, pc, cur, log, checked, outcome, fetched,
                   crashed>>

\* The answer to a comment deletion (m2gl.js:733-746).  Nobody holds the
\* promise: a success resolves to the status and a 403 to false, and nothing
\* changes; any other failure is rethrown, and the rejection is unhandled,
\* which the runtime reports and goes on, or dies of.
deleteNoteAnswer ==
    /\ ~crashed
    /\ \E r \in inflight :
        /\ r.op = "deleteIssueNote"
        /\ inflight' = inflight \ {r}
        /\ \/ UNCHANGED <<failed, crashed>>
           \/ /\ failed' = failed \cup {r}  \* 'Failed to remove note of issue'
              /\ crashed' \in BOOLEAN
    /\ UNCHANGED <<fetchVars, evalVars, threadVars, listedNotes, dryRun, fromIssueId, sourceIds, config, mantisIssues,
                   gitlabIssues, remote, pc, cur, log, checked, outcome, fetched>>

\* ------------------------------------------------------- specifications
NextOn(configs, files) ==
    \/ getConfig(configs)
    \/ readMantisIssues(files)
    \/ getGitLabProject
    \/ getGitLabProjectMembers
    \/ getGitLabProjectMilestones
    \/ validateMantisIssues
    \/ getGitLabProjectIssues
    \/ importIssue
    \/ updateAnswer
    \/ insertAnswer
    \/ closeAnswer
    \/ replaceIssueNotes(RemoteNoteLists)
    \/ addNoteAnswer
    \/ lateAddNoteAnswer
    \/ deleteNoteAnswer

Next == NextOn(ConfigFiles, Files)

Spec == Init /\ [][Next]_vars

\* The import when every step that can be taken eventually is: every request
\* gets its answer and every continuation runs.
SpecLive == Spec /\ WF_vars(Next)

NextUsers == NextOn(ConfigFiles, FilesUsers)

SpecUsers == Init /\ [][NextUsers]_vars

NextNotes == NextOn(ConfigFiles, FilesNotes)

SpecNotes == Init /\ [][NextNotes]_vars

\* The import on a configuration file that may lack a mapping table, of an
\* export of one row.
FilesOne == FilesOf(RowsOf({"alice"}, {""}), 1)

NextConfig == NextOn(ConfigFilesLacking, FilesOne)

SpecConfig == Init /\ [][NextConfig]_vars

\* The import while the remote answers every listing of comments by a
\* failure: no deletion is ever requested.
NextListingFails ==
    \/ getConfig(ConfigFiles)
    \/ readMantisIssues(Files)
    \/ getGitLabProject
    \/ getGitLabProjectMembers
    \/ getGitLabProjectMilestones
    \/ validateMantisIssues
    \/ getGitLabProjectIssues
    \/ importIssue
    \/ updateAnswer
    \/ insertAnswer
    \/ closeAnswer
    \/ replaceIssueNotes({})
    \/ addNoteAnswer
    \/ lateAddNoteAnswer

SpecListingFails == Init /\ [][NextListingFails]_vars

\* ---------------------------------------------------- the paginated fetch
\* The import pipeline standing at the given stage, with nothing imported.
ImportIdle(stage) ==
    /\ dryRun = FALSE
    /\ fromIssueId = 0
    /\ sourceIds = {}
    /\ config = [users |-> ConfigUsers]
    /\ mantisIssues = <<>>
    /\ gitlabIssues = {}
    /\ remote = [i \in Ids |-> "absent"]
    /\ pc = stage
    /\ cur = 0
    /\ inflight = {}
    /\ log = <<>>
    /\ checked = <<>>
    /\ outcome = <<>>
    /\ fetched = {}
    /\ failed = {}
    /\ crashed = FALSE
    /\ listedNotes = {}

\* getRemainingGitLabProjectIssues(0, 100) (m2gl.js:356)
per_page == 100

\* The answer to page p of a project of n issues, pages counted from 0 as
\* the progress message of m2gl.js:373 counts them: the issues
\* p * per_page + 1 .. p * per_page + per_page, as far as they exist.
PageOf(n, p) ==
    LET from == p * per_page
        length == IF n - from > per_page THEN per_page
                  ELSE IF n - from > 0 THEN n - from ELSE 0
    IN  [k \in 1..length |-> from + k]

\* Mutant of LastPage: a full page ends the fetch too.
LastPage_atMost(body) == Len(body) <= per_page

\* issues.length < per_page (m2gl.js:384)
LastPage(body) == Len(body) < per_page

\* issues.concat(remainingIssues) of every pending continuation, innermost
\* first (m2gl.js:387-390).
RECURSIVE Concat(_)
Concat(bs) == IF bs = <<>> THEN <<>> ELSE Head(bs) \o Concat(Tail(bs))

\* getRemainingGitLabProjectIssues (m2gl.js:370-380) up to its request.
getRemainingGitLabProjectIssues(p, size) ==
    /\ page' = p
    /\ requested' = Append(requested, [page |-> p, per_page |-> size])
    /\ fetchPc' = "requesting"

\* getGitLabProjectIssues (m2gl.js:355-356) calls it for page 0.
fetchFirstPage ==
    /\ fetchPc = "start"
    /\ getRemainingGitLabProjectIssues(0, per_page)
    /\ UNCHANGED <<bodies, allIssues, inventory, importVars, evalVars, threadVars>>

\* The answer to a page request (m2gl.js:381-397): a short page resolves
\* the whole chain of continuations, a full one requests the next page; a
\* failure is rethrown through every continuation.
pageAnswer ==
    /\ fetchPc = "requesting"
    /\ \/ LET body == PageOf(inventory, page)
          IN  /\ bodies' = Append(bodies, body)
              /\ IF LastPage(body)
                 THEN /\ allIssues' = Concat(bodies')
                      /\ fetchPc' = "done"
                      /\ UNCHANGED <<page, requested>>
                 ELSE /\ getRemainingGitLabProjectIssues(page + 1, per_page)
                      /\ UNCHANGED allIssues
       \/ /\ fetchPc' = "failed"  \* 'Cannot get list of issues from gitlab'
          /\ UNCHANGED <<page, bodies, requested, allIssues>>
    /\ UNCHANGED <<inventory, importVars, evalVars, threadVars>>

InitPages ==
    /\ ImportIdle("getGitLabProjectIssues")
    /\ EvalIdle
    /\ ThreadIdle
    /\ page = 0
    /\ bodies = <<>>
    /\ requested = <<>>
    /\ allIssues = <<>>
    /\ fetchPc = "start"
    /\ inventory \in 0..MaxInventory

NextPages == fetchFirstPage \/ pageAnswer

SpecPages == InitPages /\ [][NextPages]_vars


\* ------------------------------------------------- the record normalizer
\* What a call came to: the value returned, or the TypeError raised.
Returned(value) == [threw |-> FALSE, value |-> value]
TypeError == [threw |-> TRUE, value |-> <<>>]

\* labels.join(",") (m2gl.js:499) and attributes.join(", ") (m2gl.js:440).
RECURSIVE JoinWith(_, _)
JoinWith(parts, sep) ==
    IF parts = <<>> THEN <<>>
    ELSE IF Len(parts) = 1 THEN parts
    ELSE <<parts[1], sep>> \o JoinWith(Tail(parts), sep)

\* The label tables of the configuration file, as the README gives them, and
\* a second file whose category table also has an entry for the code 40.
LabelConfigs ==
    {[category_labels |-> [c \in {"1", "2"} |->
                              IF c = "1" THEN "area:Admin" ELSE "area:Voter"],
      priority_labels |-> [c \in {"20", "40"} |->
                              IF c = "20" THEN "priority:low" ELSE "priority:high"],
      severity_labels |-> [c \in {"60", "80"} |->
                              IF c = "60" THEN "severity:major" ELSE "severity:block"]],
     [category_labels |-> [c \in {"1", "40"} |->
                              IF c = "1" THEN "area:Admin" ELSE "priority:high"],
      priority_labels |-> [c \in {"20", "40"} |->
                              IF c = "20" THEN "priority:low" ELSE "priority:high"],
      severity_labels |-> [c \in {"60", "80"} |->
                              IF c = "60" THEN "severity:major" ELSE "severity:block"]]}

\* Rows of the export as far as getLabels reads them: with no tags column
\* (the export query has none), and with an empty or a non-empty one.
LabelRows ==
    [CategoryId : {"1", "3", "40"}, Priority : {"20", "30", "40"},
     Severity : {"60", "70"}]
    \cup [tags : {"", "bug"}, CategoryId : {"1", "3", "40"},
          Priority : {"20", "30", "40"}, Severity : {"60", "70"}]

\* (row.tags || []).slice(0) of a non-empty string is that string, which has
\* neither push nor join (m2gl.js:485-499): a TypeError.
getLabelsThrows(row) == "tags" \in DOMAIN row /\ row.tags # ""

\* The guard of the priority and of the severity label (m2gl.js:491, 495):
\* config.category_labels.hasOwnProperty(code) && (label = table[code]).
OwnLabel(cfg, table, code) ==
    code \in DOMAIN cfg.category_labels /\ code \in DOMAIN table

\* getLabels (m2gl.js:483-500) where it does not raise.
getLabels(row, cfg) ==
    LET none == <<>>
        category == IF row.CategoryId \in DOMAIN cfg.category_labels
                    THEN Append(none, cfg.category_labels[row.CategoryId])
                    ELSE none
        priority == IF OwnLabel(cfg, cfg.priority_labels, row.Priority)
                    THEN Append(category, cfg.priority_labels[row.Priority])
                    ELSE category
        severity == IF OwnLabel(cfg, cfg.severity_labels, row.Severity)
                    THEN Append(priority, cfg.severity_labels[row.Severity])
                    ELSE priority
    IN  JoinWith(severity, ",")

callGetLabels ==
    /\ evalPc = "call" /\ arg.fn = "getLabels"
    /\ ret' = IF getLabelsThrows(arg.row) THEN TypeError
              ELSE Returned(getLabels(arg.row, arg.config))
    /\ evalPc' = "returned"
    /\ UNCHANGED <<arg, importVars, fetchVars, threadVars>>

\* The value of a missing column in the rows below.
Absent == "(no such column)"

\* The row without its missing columns.
WithoutAbsent(full) ==
    [f \in {g \in DOMAIN full : g = "Id" \/ full[g] # Absent} |-> full[f]]

\* Rows of the export as far as getDescription reads them.
DescriptionRows ==
    {WithoutAbsent(full) :
        full \in [Id : {7}, Reporter : {Absent, "", "NULL", "alice"},
                  AssignedTo : {"", "NULL", "bob"},
                  Created : {"NULL", "2020-01-01"},
                  Updated : {Absent, "2020-01-02"},
                  Description : {"Body text"},
                  Info : {Absent, "", "NULL", "More"}]}

\* The configuration file with and without the optional mantisUrl.
DescriptionConfigs == {[users |-> ConfigUsers],
                       [users |-> ConfigUsers, mantisUrl |-> "https://old/mantis"]}

\* Mutant of Present: the literal 'NULL' counts as a value.
Present_exceptNull(row, field) == field \in DOMAIN row /\ row[field] # ""

\* row.hasOwnProperty(f) && row[f] && row[f] !== 'NULL' (m2gl.js:424-444)
Present(row, field) ==
    field \in DOMAIN row /\ row[field] # "" /\ row[field] # "NULL"

\* getDescription (m2gl.js:414-449): the text as the sequence of its parts.
getDescription(row, cfg) ==
    LET issue == IF "mantisUrl" \in DOMAIN cfg /\ cfg.mantisUrl # ""
                 THEN <<"[Mantis Issue ", ToString(row.Id), "](", cfg.mantisUrl,
                        "/view.php?id=", ToString(row.Id), ")">>
                 ELSE <<"Mantis Issue ", ToString(row.Id)>>
        reporter == IF Present(row, "Reporter")
                    THEN <<(<<"Reported By: @", row.Reporter>>)>> ELSE <<>>
        assigned == IF Present(row, "AssignedTo")
                    THEN <<(<<"Assigned To: @", row.AssignedTo>>)>> ELSE <<>>
        created == IF Present(row, "Created")
                   THEN <<(<<"Created: ", row.Created>>)>> ELSE <<>>
        updated == IF Present(row, "Updated")
                   THEN <<(<<"Updated: ", row.Updated>>)>> ELSE <<>>
        attributes == <<issue>> \o reporter \o assigned \o created \o updated
        description == <<"_">> \o Concat(JoinWith(attributes, <<", ">>))
                          \o <<"_\n\n\n----\n">>
                          \o <<(IF "Description" \in DOMAIN row
                                THEN row.Description ELSE "undefined"), "\n\n">>
    IN  IF Present(row, "Info")
        THEN description \o <<"\n\n----\n_Info:_\n", row.Info>>
        ELSE description

callGetDescription ==
    /\ evalPc = "call" /\ arg.fn = "getDescription"
    /\ ret' = Returned(getDescription(arg.row, arg.config))
    /\ evalPc' = "returned"
    /\ UNCHANGED <<arg, importVars, fetchVars, threadVars>>

\* The notes of an issue in the database of the source system: usernames
\* are not all lowercase letters.
NoteRecords ==
    [created_at : TimeTokens, author : NameTokens \cup {"J.Smith"},
     body : {"First note", "Second\nnote"}]

\* The rows getNotes is called on, each with the notes it was exported from:
\* every export of at most MaxNotes notes, a 'NULL' field and no Notes column.
NotesInputs ==
    {[fn |-> "getNotes", notes |-> f,
      row |-> [Id |-> 7, Notes |-> JoinChunks([k \in DOMAIN f |-> ChunkText(f[k])])]] :
        f \in UNION {[1..n -> NoteRecords] : n \in 0..MaxNotes}}
    \cup {[fn |-> "getNotes", notes |-> <<>>, row |-> [Id |-> 7, Notes |-> <<"NULL">>]],
          [fn |-> "getNotes", notes |-> <<>>, row |-> [Id |-> 7]]}

callGetNotes ==
    /\ evalPc = "call" /\ arg.fn = "getNotes"
    /\ ret' = IF getNotesThrows(arg.row) THEN TypeError
              ELSE Returned(getNotes(arg.row))
    /\ evalPc' = "returned"
    /\ UNCHANGED <<arg, importVars, fetchVars, threadVars>>

\* The users section of a configuration file: any of the entries '', alice
\* and bob, or none.
FileUsers ==
    {[u \in keys |->
        IF u = "" THEN [name |-> "Nobody", gl_username |-> "import_bot"]
        ELSE IF u = "alice" THEN [name |-> "Alice", gl_username |-> "alice_gl"]
        ELSE [name |-> "Bob", gl_username |-> "bob_gl"]] :
        keys \in SUBSET {"", "alice", "bob"}}

\* getConfig's _.extend({"": {name: "Unknown", gl_username: gitlabSudo}},
\* config.users) (m2gl.js:79-84): the entries of the file, and the default
\* for the empty username where the file has none.
ExtendUsers(fileUsers) ==
    [u \in {""} \cup DOMAIN fileUsers |->
        IF u \in DOMAIN fileUsers THEN fileUsers[u]
        ELSE [name |-> "Unknown", gl_username |-> gitlabSudo]]

\* The calls of getUserByMantisUsername: with a username, and with undefined
\* (a row without the column).
UserInputs ==
    {[fn |-> "getUserByMantisUsername", file |-> f, username |-> u] :
        f \in FileUsers, u \in {"", "alice", "bob", "zed", "constructor"}}
    \cup {[fn |-> "getUserByMantisUsername", file |-> f] : f \in FileUsers}

\* undefined is falsy as the empty string is (m2gl.js:406: username && ...).
callGetUser ==
    /\ evalPc = "call" /\ arg.fn = "getUserByMantisUsername"
    /\ ret' = Returned(getUserByMantisUsername(
                           [users |-> ExtendUsers(arg.file)],
                           IF "username" \in DOMAIN arg THEN arg.username ELSE ""))
    /\ evalPc' = "returned"
    /\ UNCHANGED <<arg, importVars, fetchVars, threadVars>>

\* assignee_id of importIssue's payload (m2gl.js:296, 305):
\* assignee && assignee.gl_id, undefined for an object without gl_id.
assignee_id(cfg, username) ==
    LET assignee == getUserByMantisUsername(cfg, username)
    IN  IF assignee = null THEN null
        ELSE IF "gl_id" \in DOMAIN assignee THEN assignee.gl_id
        ELSE undefined

\* The calls that build assignee_id: the row's 'Assigned To' username and the
\* users table of the configuration file.
AssigneeInputs ==
    {[fn |-> "assignee_id", file |-> f, username |-> u] :
        f \in FileUsers, u \in {"", "NULL", "alice", "bob", "zed", "constructor"}}

\* The configuration as importIssue finds it: after getConfig and
\* mapGitLabUserIds on the members of the project.
callAssigneeId ==
    /\ evalPc = "call" /\ arg.fn = "assignee_id"
    /\ ret' = Returned(assignee_id(
                           mapGitLabUserIds([users |-> ExtendUsers(arg.file)],
                                            GitlabMembers),
                           arg.username))
    /\ evalPc' = "returned"
    /\ UNCHANGED <<arg, importVars, fetchVars, threadVars>>

InitEval ==
    /\ ImportIdle("importIssue")
    /\ FetchIdle
    /\ ThreadIdle
    /\ arg \in {[fn |-> "getLabels", row |-> r, config |-> c] :
                   r \in LabelRows, c \in LabelConfigs}
             \cup {[fn |-> "getDescription", row |-> r, config |-> c] :
                   r \in DescriptionRows, c \in DescriptionConfigs}
             \cup NotesInputs
             \cup UserInputs
             \cup AssigneeInputs
    /\ ret = <<>>
    /\ evalPc = "call"

NextEval ==
    \/ callGetLabels
    \/ callGetDescription
    \/ callGetNotes
    \/ callGetUser
    \/ callAssigneeId

SpecEval == InitEval /\ [][NextEval]_vars

\* ------------------------------------------------------ the thread refresh
\* replaceIssueNotes (m2gl.js:755-773) of one record in a real run, against
\* the comments the remote issue holds, when every request is answered by a
\* success.

\* The comments of the remote issue before the refresh, oldest first: each
\* has the id the remote gave it and its body.
Threads ==
    {[k \in DOMAIN bs |-> [id |-> k, body |-> bs[k], created |-> FALSE]] :
        bs \in UNION {[1..n -> {PlainNoteBody, MantisNoteBody}] : n \in 0..MaxThread}}

\* The id the remote gives the next comment.
NextNoteId ==
    LET used == {notes[k].id : k \in DOMAIN notes} \cup {n.id : n \in removed}
    IN  IF used = {} THEN 1 ELSE (CHOOSE m \in used : \A u \in used : u <= m) + 1

\* The answer to GET .../notes (m2gl.js:700-702): the request names no page
\* and no page size and no further page is asked for, so the answer is the
\* remote's first page.
FirstPage ==
    SubSeq(notes, 1, IF Len(notes) < notesPage THEN Len(notes) ELSE notesPage)

\* The handlers of deleteAllIssueNotes (m2gl.js:703-709) and of
\* replaceIssueNotes (757-769): a DELETE per listed comment that begins with
\* the marker, then a POST per parsed note.
listAnswered ==
    /\ refreshPc = "listing"
    /\ LET listed == FirstPage
           mantis == SelectSeq(listed, LAMBDA note : StartsWithMarker(note.body))
           mantisNotes == getNotes(refreshRow)
       IN  /\ noteRequests' =
                  {[op |-> "deleteIssueNote", id |-> mantis[k].id, n |-> 0] :
                      k \in DOMAIN mantis}
                  \cup {[op |-> "addNote", id |-> 0, n |-> k] : k \in DOMAIN mantisNotes}
           /\ refreshPc' = IF mantisNotes = <<>> THEN "resolved" ELSE "adding"
    /\ UNCHANGED <<notes, notesPage, refreshRow, removed,
                   importVars, fetchVars, evalVars>>

\* The remote deletes the comment (m2gl.js:730-736).
noteDeleted ==
    /\ \E r \in noteRequests :
        /\ r.op = "deleteIssueNote"
        /\ noteRequests' = noteRequests \ {r}
        /\ notes' = SelectSeq(notes, LAMBDA note : note.id # r.id)
        /\ removed' = removed \cup {notes[k] : k \in {j \in DOMAIN notes : notes[j].id = r.id}}
    /\ UNCHANGED <<notesPage, refreshRow, refreshPc, importVars, fetchVars, evalVars>>

\* The remote creates the comment (m2gl.js:796-803); Promise.all resolves
\* with the last answer (766-768).
noteAdded ==
    /\ \E r \in noteRequests :
        /\ r.op = "addNote"
        /\ noteRequests' = noteRequests \ {r}
        /\ notes' = Append(notes, [id |-> NextNoteId,
                                   body |-> getNotes(refreshRow)[r.n].body,
                                   created |-> TRUE])
        /\ refreshPc' = IF \E q \in noteRequests \ {r} : q.op = "addNote"
                        THEN refreshPc ELSE "resolved"
    /\ UNCHANGED <<notesPage, refreshRow, removed, importVars, fetchVars, evalVars>>

InitThread ==
    /\ ImportIdle("awaitNotes")
    /\ FetchIdle
    /\ EvalIdle
    /\ notes \in Threads
    /\ notesPage \in 1..MaxThread
    /\ refreshRow \in RowsOf({"alice"}, {""})
    /\ refreshPc = "listing"
    /\ noteRequests = {}
    /\ removed = {}

NextThread == listAnswered \/ noteDeleted \/ noteAdded

SpecThread == InitThread /\ [][NextThread]_vars

\* ------------------------------------------------------------- the claims
\* Positions in the log of the calls of the given kinds made for a record.
CallsOf(id, ops) == {k \in DOMAIN log : log[k].rec = id /\ log[k].op \in ops}

\* The position in mantisIssues of the record with this Id.
PositionOf(id) == CHOOSE k \in DOMAIN mantisIssues : mantisIssues[k].Id = id

IssueWrites == {"updateIssue", "insertIssue", "closeIssue"}
NoteCalls == {"listNotes", "deleteIssueNote", "addNote"}

\* C1 (first part): every record whose existence was checked has exactly one
\* decision call, an update or a create.
C1_Decided ==
    \A k \in DOMAIN checked :
        Cardinality(CallsOf(checked[k], {"updateIssue", "insertIssue"})) = 1

\* C1 (second part): the step that checks a record's existence makes, as its
\* first call and with no request before it, an update (PUT) of that issue
\* number when the Id is a key of the index at that moment, and otherwise a
\* create (POST) whose iid is the Id.
C1_Decision ==
    checked' # checked =>
        LET id == mantisIssue.Id
            first == log'[Len(log) + 1]
        IN  /\ first.rec = id /\ first.issue = id /\ first.sent = ~dryRun
            /\ IF id \in gitlabIssues
               THEN first.op = "updateIssue" /\ first.method = "PUT"
               ELSE first.op = "insertIssue" /\ first.method = "POST"

\* C1: for every record processed, an Id that is a key of the in-memory index
\* at decision time gets exactly one update call for that issue number and no
\* create, an absent Id exactly one create call with iid = Id and no update;
\* the decision is taken on the index alone, without a request (in dry-run
\* the call is the acknowledged, unsent one).
C1_CreateOrUpdate == [][C1_Decision /\ C1_Decided']_vars

\* C1 witness: a real run that updated one record and created another.
C1_Witness ==
    /\ pc = "done" /\ ~dryRun
    /\ \E a, b \in DOMAIN log :
        /\ log[a].op = "updateIssue" /\ log[a].sent
        /\ log[b].op = "insertIssue" /\ log[b].sent

\* C2 as claimed: when the driver begins the next record or reports Done, no
\* request of an earlier record is still in flight.
C2_NoOverlap == pc \in {"importIssue", "done"} => inflight = {}

\* The source Ids at or above the start id, ascending.
RECURSIVE Ascending(_)
Ascending(S) ==
    IF S = {} THEN <<>>
    ELSE LET least == CHOOSE x \in S : \A y \in S : x <= y
         IN  <<least>> \o Ascending(S \ {least})

IsPrefix(a, b) == Len(a) <= Len(b) /\ SubSeq(b, 1, Len(a)) = a

\* C3: whatever the row order of the file, the Ids whose existence is checked
\* are, in order, the strictly ascending source Ids >= the start id (all of
\* them without a start id): a prefix of that sequence while the run lasts,
\* all of it when the run is Done; and no call is ever made for a record below
\* the start id or for one whose existence was not checked.
C3_AscendingFromStart ==
    LET selected == Ascending({id \in sourceIds : id >= fromIssueId})
    IN  /\ IsPrefix(checked, selected)
        /\ pc = "done" => checked = selected
        /\ \A j \in DOMAIN log :
              log[j].rec # 0 =>
                  /\ log[j].rec >= fromIssueId
                  /\ \E k \in DOMAIN checked : checked[k] = log[j].rec

\* C3 witness: a run with a start id that is Done after two existence checks.
C3_Witness == pc = "done" /\ fromIssueId > 0 /\ Len(checked) >= 2

\* C4: a run whose inventory fetch returned every source Id (the second run
\* over the same export) makes no create and no close-after-create call:
\* its only calls on issues are updates carrying state_event close or reopen.
C4_Idempotent ==
    (\A k \in DOMAIN mantisIssues : mantisIssues[k].Id \in fetched) =>
        \A j \in DOMAIN log :
            log[j].op \in IssueWrites =>
                /\ log[j].op = "updateIssue"
                /\ log[j].state_event \in {"close", "reopen"}

\* C4 witness: such a run is Done after one closing and one reopening update.
C4_Witness ==
    /\ pc = "done"
    /\ \A k \in DOMAIN mantisIssues : mantisIssues[k].Id \in fetched
    /\ \E a, b \in DOMAIN log :
        /\ log[a].op = "updateIssue" /\ log[a].state_event = "close"
        /\ log[b].op = "updateIssue" /\ log[b].state_event = "reopen"


\* The non-empty usernames of the records that the identity table lacks.
Unconfigured ==
    {u \in {mantisIssues[k].Reporter : k \in DOMAIN mantisIssues}
            \cup {mantisIssues[k].AssignedTo : k \in DOMAIN mantisIssues} :
        u # "" /\ u \notin DOMAIN config.users}

\* C5 as claimed: when a record names a non-empty reporter or assignee that
\* the identity table lacks, validation fails: the run never gets to an
\* existence check and issues nothing but GET requests.
C5_ValidationAborts ==
    Unconfigured # {} =>
        /\ checked = <<>>
        /\ \A j \in DOMAIN log : log[j].method = "GET"

\* C6 as claimed: in dry-run every GET is sent, no POST, PUT or DELETE is
\* sent, and the acknowledgment of each suppressed write carries the issue
\* number it targets, the Id of the record being imported.
C6_DryRunAcknowledges ==
    dryRun =>
        \A j \in DOMAIN log :
            IF log[j].method = "GET" THEN log[j].sent
            ELSE ~log[j].sent /\ log[j].issue = log[j].rec

\* C7: once a record's create request has failed, no close and no notes call
\* is ever made for it, its Id is not in the index, the record is finished as
\* InsertFailed and the driver is past it; the run is in error only when an
\* update or a comment creation failed.
C7_CreateFailureIsolated ==
    \A c \in failed :
        c.op = "insertIssue" =>
            /\ c.rec \notin gitlabIssues
            /\ CallsOf(c.rec, IssueWrites \cup NoteCalls) = CallsOf(c.rec, {"insertIssue"})
            /\ PositionOf(c.rec) < cur
            /\ outcome[PositionOf(c.rec)] = "InsertFailed"
            /\ pc = "error" => \E d \in failed : d.op \in {"updateIssue", "addNote"}

\* C7 witness: the first record's create failed and the run is Done after a
\* second record.
C7_Witness ==
    /\ pc = "done" /\ Len(checked) = 2
    /\ \E c \in failed : c.op = "insertIssue" /\ c.rec = checked[1]

\* C8: once an update request or a comment creation (of a record on either
\* branch) has failed, the run is in error, not Done; the failed record is the
\* last one whose existence was checked, no call was made for a later record,
\* and a failed update is the record's last call.
C8_FatalFailures ==
    \A c \in failed :
        c.op \in {"updateIssue", "addNote"} =>
            /\ pc = "error"
            /\ cur = PositionOf(c.rec)
            /\ checked[Len(checked)] = c.rec
            /\ \A j \in DOMAIN log : log[j].rec <= c.rec
            /\ c.op = "updateIssue" => CallsOf(c.rec, NoteCalls) = {}

\* C8 witness: a comment creation failed for a created record while a later
\* record waits.
C8_Witness ==
    \E c \in failed :
        /\ c.op = "addNote" /\ ~Updated(c.rec)
        /\ cur < Len(mantisIssues)

ChunkCount(text) ==
    IF text = <<>> THEN 0
    ELSE 1 + Cardinality({i \in DOMAIN text : text[i] = Delimiter})

\* C10 as claimed: in a real run every record whose issue was updated or
\* created, open or closed, gets one comment-creation request per note of
\* its Notes field.
C10_NotesReplaced ==
    ~dryRun =>
        \A k \in DOMAIN outcome :
            outcome[k] # "InsertFailed" =>
                Cardinality(CallsOf(mantisIssues[k].Id, {"addNote"}))
                    = ChunkCount(mantisIssues[k].Notes)

\* Whether a comment body begins with the attribution marker.
BeginsWithMarker(body) == body # <<>> /\ body[1] = "_via Mantis:_"

\* The delete calls (sent, or acknowledged in dry-run) aimed at a listed
\* comment.
DeletesOf(c) ==
    {j \in DOMAIN log :
        /\ log[j].op = "deleteIssueNote" /\ log[j].method = "DELETE"
        /\ log[j].rec = c.rec /\ log[j].issue = c.issue /\ log[j].n = c.id}

\* C11: of the comments a refresh found listed, exactly those whose body
\* begins with '_via Mantis:_' are the target of a delete call, each of one;
\* and every delete call of the run targets such a listed comment, so a
\* comment without the marker is never the target of one.
C11_OnlyMarkedDeleted ==
    /\ \A c \in listedNotes :
          Cardinality(DeletesOf(c)) = IF BeginsWithMarker(c.body) THEN 1 ELSE 0
    /\ \A j \in DOMAIN log :
          log[j].op = "deleteIssueNote" =>
              \E c \in listedNotes : BeginsWithMarker(c.body) /\ j \in DeletesOf(c)

\* C11 witness: a finished real run whose listing held a comment with and one
\* without the marker, and that sent a delete request.
C11_Witness ==
    /\ pc = "done" /\ ~dryRun
    /\ \E c, d \in listedNotes :
          /\ c.rec = d.rec /\ BeginsWithMarker(c.body) /\ ~BeginsWithMarker(d.body)
          /\ \E j \in DeletesOf(c) : log[j].sent

\* C12 as claimed (second half): once a comment deletion has failed for a
\* reason other than 403, the run has ended in an error and no call was made
\* for a later record.
C12_DeleteFailureFatal ==
    \A c \in failed :
        c.op = "deleteIssueNote" =>
            /\ pc = "error" \/ crashed
            /\ \A j \in DOMAIN log : log[j].rec <= c.rec

\* C13 as claimed: every comment-creation request is sent with the Sudo
\* value the identity table resolves the note's author to.
C13_NoteSudoResolved ==
    \A j \in DOMAIN log :
        (log[j].op = "addNote" /\ log[j].sent) =>
            LET author == getNotes(mantisIssues[PositionOf(log[j].rec)])[log[j].n].author
            IN  log[j].sudo = getUserByMantisUsername(config, author).gl_username

\* C14: the fetch requests page 0 first and then consecutive pages, each with
\* page size 100 and each only when every earlier page has answered with a
\* full page; it is Done exactly at the first page of fewer than 100 items,
\* and then returns the concatenation of the pages in page order, the whole
\* inventory of n items, after exactly floor(n/100)+1 requests.
C14_PaginatedFetch ==
    /\ \A k \in DOMAIN requested :
          requested[k].page = k - 1 /\ requested[k].per_page = 100
    /\ Len(requested) <= Len(bodies) + 1
    /\ \A k \in DOMAIN bodies : k < Len(requested) => Len(bodies[k]) = 100
    /\ \A k \in DOMAIN bodies :
          Len(bodies[k]) < 100 => k = Len(bodies) /\ fetchPc = "done"
    /\ fetchPc = "done" =>
          /\ Len(bodies) = Len(requested)
          /\ Len(bodies[Len(bodies)]) < 100
          /\ allIssues = [k \in 1..inventory |-> k]
          /\ Len(requested) = (inventory \div 100) + 1

\* C14 witness: pages of 100, 100 and 37 items gave 237 items after the
\* requests for pages 0, 1 and 2.
C14_Witness ==
    /\ fetchPc = "done"
    /\ [k \in DOMAIN bodies |-> Len(bodies[k])] = <<100, 100, 37>>
    /\ Len(allIssues) = 237
    /\ [k \in DOMAIN requested |-> requested[k].page] = <<0, 1, 2>>

\* The stages of the pipeline up to and including the inventory fetch.
BeforeImport ==
    {"getConfig", "readMantisIssues", "getGitLabProject", "getGitLabProjectMembers",
     "getGitLabProjectMilestones", "validateMantisIssues", "getGitLabProjectIssues"}

Listings ==
    {"getGitLabProject", "getGitLabProjectMembers", "getGitLabProjectMilestones",
     "getGitLabProjectIssues"}

\* C15: up to the end of the inventory fetch there is no existence check and
\* no call for a record, only GETs; when the first existence check is due the
\* index holds exactly the fetched inventory, every issue the remote project
\* has; a check or a write implies the four listings were made, in order,
\* and none failed; and once a listing has failed the run is in error with no
\* existence check and no write call, for good.
C15_IndexBeforeDecisions ==
    /\ pc \in BeforeImport =>
          /\ checked = <<>>
          /\ \A j \in DOMAIN log : log[j].method = "GET" /\ log[j].rec = 0
    /\ (pc = "importIssue" /\ checked = <<>>) =>
          /\ gitlabIssues = fetched
          /\ fetched = {i \in Ids : remote[i] # "absent"}
    /\ (checked # <<>> \/ \E j \in DOMAIN log : log[j].method # "GET") =>
          /\ Len(log) > 4
          /\ [k \in 1..4 |-> log[k].op]
                = <<"getGitLabProject", "getGitLabProjectMembers",
                    "getGitLabProjectMilestones", "getGitLabProjectIssues">>
          /\ \A c \in failed : c.op \notin Listings
    /\ \A c \in failed :
          c.op \in Listings =>
              /\ pc = "error"
              /\ checked = <<>>
              /\ log[Len(log)].op = c.op
              /\ \A j \in DOMAIN log : log[j].method = "GET" /\ log[j].rec = 0

\* C15 witness: the inventory listing failed with records waiting.
C15_Witness ==
    /\ mantisIssues # <<>>
    /\ \E c \in failed : c.op = "getGitLabProjectIssues"

\* Whether a chunk has the form '<timestamp>][<author>][<body>'.
WellFormed(chunk) ==
    /\ Len(chunk) >= 4
    /\ chunk[1] \in TimeTokens /\ chunk[2] = "][" /\ chunk[4] = "]["

\* The chunks of a Notes field, none for an empty one.
RECURSIVE ChunksOf(_)
ChunksOf(text) ==
    IF text = <<>> THEN <<>>
    ELSE IF \E i \in DOMAIN text : text[i] = "$$$$"
    THEN LET i == CHOOSE j \in DOMAIN text :
                     text[j] = "$$$$" /\ \A h \in 1..(j - 1) : text[h] # "$$$$"
         IN  <<SubSeq(text, 1, i - 1)>> \o ChunksOf(SubSeq(text, i + 1, Len(text)))
    ELSE <<text>>

HasMalformedChunk(row) ==
    \E k \in DOMAIN ChunksOf(row.Notes) : ~WellFormed(ChunksOf(row.Notes)[k])

\* C16 as claimed: a record holding a chunk that does not match the pattern
\* is never finished as imported, on whichever branch: its import ends the
\* run in an error.
C16_MalformedNotesFatal ==
    \A k \in DOMAIN outcome :
        HasMalformedChunk(mantisIssues[k]) => outcome[k] = "InsertFailed"

\* The label a table maps a code to, none without a mapping.
LabelOf(table, code) == IF code \in DOMAIN table THEN <<table[code]>> ELSE <<>>

\* C17 as claimed: the labels are the record's tags, then the category, the
\* priority and the severity label, each present exactly when its own table
\* maps the record's code, joined by commas without deduplication.
C17_LabelAssembly ==
    (evalPc = "returned" /\ arg.fn = "getLabels") =>
        LET row == arg.row
            tags == IF "tags" \in DOMAIN row /\ row.tags # "" THEN <<row.tags>> ELSE <<>>
            labels == tags
                        \o LabelOf(arg.config.category_labels, row.CategoryId)
                        \o LabelOf(arg.config.priority_labels, row.Priority)
                        \o LabelOf(arg.config.severity_labels, row.Severity)
        IN  /\ ~ret.threw
            /\ ret.value = JoinWith(labels, ",")

\* Whether the record has a value in the column: non-empty and not 'NULL'.
Filled(row, column) == column \in DOMAIN row /\ row[column] \notin {"", "NULL"}

C19_CommentExtraction ==
    (evalPc = "returned" /\ arg.fn = "getNotes") =>
        /\ ~ret.threw
        /\ ret.value = [k \in DOMAIN arg.notes |->
                           [created_at |-> arg.notes[k].created_at,
                            author |-> arg.notes[k].author,
                            body |-> <<"_via Mantis:_", " ", arg.notes[k].body>>]]

\* C20 as claimed: the lookup never raises and never returns null; a
\* non-empty username with an entry in the identity table of the file gets
\* that entry, every other one (empty, undefined, unconfigured) the fallback
\* identity 'Unknown' with the operator's account.
C20_IdentityResolution ==
    (evalPc = "returned" /\ arg.fn = "getUserByMantisUsername") =>
        /\ ~ret.threw
        /\ ret.value # [isNull |-> TRUE]
        /\ ret.value =
              IF "username" \in DOMAIN arg /\ arg.username # ""
                    /\ arg.username \in DOMAIN arg.file
              THEN arg.file[arg.username]
              ELSE [name |-> "Unknown", gl_username |-> "operator"]

\* The configuration as read lacks a mapping table.
LacksTable(cfg) == cfg.users # <<>> /\ ~(MappingTables \subseteq DOMAIN cfg)

\* C21: a configuration error is fatal and aborts the run before any network
\* request: when the configuration file or the export file cannot be read,
\* and when the configuration lacks a mapping table, no call of the remote
\* gateway has been made and the run is never Done.
C21_ConfigErrorsAbortFirst ==
    [][/\ (pc \in {"getConfig", "readMantisIssues"} /\ pc' = "error") => log' = <<>>
       /\ LacksTable(config') => (log' = <<>> /\ pc' # "done")]_vars

\* The calls the step appends to the log.
NewCalls == {log'[k] : k \in (Len(log) + 1)..Len(log')}

\* C22: within one thread refresh, when a comment-creation request is issued
\* no deletion request of the same refresh is still unanswered.
C22_DeleteBeforeCreate ==
    [][\A c \in NewCalls :
          c.op = "addNote" =>
              ~\E d \in inflight' : d.op = "deleteIssueNote" /\ d.rec = c.rec]_vars

\* The outcomes of a record whose create the driver treated as successful.
Created == {"Inserted", "InsertedAndClosed", "CloseFailed"}

\* C23: every key of the in-memory index is an issue number, and once a
\* record's create was treated as successful (a real response or the dry-run
\* acknowledgment) the index holds an entry under the record's issue number,
\* so that getIssue finds it.
C23_IndexAfterCreate ==
    /\ gitlabIssues \subseteq Ids
    /\ \A k \in DOMAIN outcome :
          outcome[k] \in Created => getIssue(mantisIssues[k].Id)

\* C24: a failure of the request that lists an issue's comments halts the
\* run: the step that takes the failed answer ends the run in the error, and
\* issues no comment creation.  (Every listing answer of SpecListingFails is
\* a failure.)
C24_ListingFailureFatal ==
    [][(pc = "awaitNotes" /\ pc' # "awaitNotes") =>
          (pc' = "error" /\ NewCalls = {})]_vars

\* The status codes the configuration maps to closed.
ClosedCodes == {"resolved"}

\* The status code of the selected record with this Id.
StatusOf(id) == mantisIssues[PositionOf(id)].Status

SameRequest(r, q) ==
    r.op = q.op /\ r.rec = q.rec /\ r.issue = q.issue /\ r.n = q.n

\* The Sudo value of a call other than a comment creation: the reporter's
\* target username for a create, the operator's otherwise.
DelegationOf(call) ==
    IF call.op = "insertIssue"
    THEN LET who == getUserByMantisUsername(config, mantisIssues[PositionOf(call.rec)].Reporter)
         IN  IF "gl_username" \in DOMAIN who THEN who.gl_username ELSE gitlabSudo
    ELSE gitlabSudo

\* C26: every request sent carries its own Sudo value, fixed when the request
\* is built: a create the target username of the record's resolved reporter
\* (the operator's without one), updates, closes, deletions and reads the
\* operator's; and no step changes the Sudo value of a request already made,
\* whatever other requests are in flight with it.
C26_OwnDelegation ==
    [][/\ \A c \in NewCalls :
             (c.sent /\ c.op # "addNote") => c.sudo = DelegationOf(c)'
       /\ IsPrefix(log, log')
       /\ \A r \in inflight : \A q \in inflight' :
             SameRequest(r, q) => q.sudo = r.sudo]_vars

\* C26 witness: a create was sent under the reporter's target username, not
\* the operator's, and two sibling comment creations are in flight.
C26_Witness ==
    /\ \E k \in DOMAIN log :
          log[k].op = "insertIssue" /\ log[k].sent /\ log[k].sudo = "alice_gl"
    /\ \E r, q \in inflight : r.op = "addNote" /\ q.op = "addNote" /\ r.n # q.n

\* The bodies of the comments of the remote issue that begin with the marker,
\* oldest first.
MarkedBodies ==
    LET marked == SelectSeq(notes, LAMBDA note : StartsWithMarker(note.body))
    IN  [k \in DOMAIN marked |-> marked[k].body]

\* Whether two sequences hold the same elements the same number of times.
SameBag(a, b) ==
    /\ Len(a) = Len(b)
    /\ \A x \in Range(a) \cup Range(b) :
          Cardinality({k \in DOMAIN a : a[k] = x}) = Cardinality({k \in DOMAIN b : b[k] = x})

\* C27: once every request of a thread refresh was answered (all by a
\* success), the comments of the remote issue that begin with the marker are
\* exactly the record's parsed notes, one per note; and the refresh never
\* deletes a comment it created itself.
C27_ThreadConsistent ==
    /\ \A n \in removed : ~n.created
    /\ (refreshPc = "resolved" /\ noteRequests = {}) =>
          SameBag(MarkedBodies,
                  [k \in DOMAIN getNotes(refreshRow) |-> getNotes(refreshRow)[k].body])

\* The writes sent among the given calls.
WritesSent(calls) == {c \in calls : c.sent /\ c.method # "GET"}

\* C28: every write sent (create, update, close, comment creation, comment
\* deletion) goes to the issue whose number is the Id of the record it is
\* made for, a record of the selection whose import has begun; and the state
\* of a remote issue changes only for the number of such a record.
C28_Frame ==
    [][/\ \A c \in WritesSent(NewCalls) :
             /\ c.issue = c.rec
             /\ c.rec \in Range(checked')
             /\ c.rec \in {mantisIssues[k].Id : k \in DOMAIN mantisIssues}
       /\ \A i \in Ids : remote'[i] # remote[i] => i \in Range(checked)]_vars

\* C28 witness: a finished real run that sent writes, while the remote
\* project holds an issue whose number is the Id of no processed record.
C28_Witness ==
    /\ pc = "done" /\ ~dryRun
    /\ WritesSent(Range(log)) # {}
    /\ \E i \in Ids : remote[i] # "absent" /\ i \notin Range(checked)

\* The ends of a record's import.
Terminal == {"Updated", "Inserted", "InsertedAndClosed", "InsertFailed", "CloseFailed"}

\* ' Done! ' was printed.
Done == pc = "done"

\* An error was reported: the pipeline's, or the one the process died of.
ErrorReported == pc = "error" \/ crashed

\* C29: every run eventually ends in Done or in a reported error, and never
\* in both; Done is reported once, and only after every selected record has
\* reached a terminal state.
C29_Terminates ==
    /\ <>(Done \/ ErrorReported)
    /\ [](~(Done /\ ErrorReported))
    /\ [][Done => Done']_vars
    /\ [](Done => /\ Len(outcome) = Len(mantisIssues)
                  /\ \A k \in DOMAIN outcome : outcome[k] \in Terminal)

\* The id of the member of the project with this username, unset without one.
MemberId(username) ==
    IF \E m \in GitlabMembers : m.username = username
    THEN (CHOOSE m \in GitlabMembers : m.username = username).id
    ELSE undefined

\* C30: assignee_id is the id of the member matched for the assignee's
\* identity: the configured identity of the username, and for an empty, 'NULL'
\* or unconfigured username the fallback identity; unset when the identity's
\* target username matches no member.
C30_AssigneeResolution ==
    (evalPc = "returned" /\ arg.fn = "assignee_id") =>
        LET users == ExtendUsers(arg.file)
            identity == IF arg.username # "" /\ arg.username \in DOMAIN arg.file
                        THEN arg.file[arg.username]
                        ELSE users[""]
        IN  ret = Returned(MemberId(identity.gl_username))

====
